---- MODULE Spec2Model ----
(***************************************************************************)
(* Bounded buffer solved with two counting semaphores and a mutex          *)
(* (src/main.c).  One producer thread and one consumer thread, created by  *)
(* main, each run MAX_BUFFER_SIZE iterations of                             *)
(*     sem_wait; pthread_mutex_lock; <critical section>;                    *)
(*     pthread_mutex_unlock; sem_post                                       *)
(* Every statement that reads or writes shared state is one action.         *)
(***************************************************************************)
EXTENDS Integers, Sequences, FiniteSets, TLC

\* #define MAX_BUFFER_SIZE 100
MAX_BUFFER_SIZE == 100

(***************************************************************************)
(* long double (x87 extended precision: 64-bit significand, round to       *)
(* nearest even).  A value is <<l3, l2, l1, l0, e>>: the significand        *)
(* l3*2^48 + l2*2^32 + l1*2^16 + l0, normalised so that l3 >= 2^15, times   *)
(* 2^e.  Infinity is the significand 2^63 with the exponent above the       *)
(* largest finite one, as the x87 encodes it.                               *)
(***************************************************************************)
Limb == 2 ^ 16

\* LDBL_MAX_EXP of the x87 long double: finite values are below 2^16384
LDBL_MAX_EXP == 16384

\* the long double inf
LdInf == <<Limb \div 2, 0, 0, 0, LDBL_MAX_EXP - 63>>

\* a product that exceeds LDBL_MAX is inf
LdOverflow(v) == IF v[5] > LDBL_MAX_EXP - 64 THEN LdInf ELSE v

\* the long double 0
LdZero == <<0, 0, 0, 0, 0>>

\* the long double 1
LdOne == <<Limb \div 2, 0, 0, 0, -63>>

RECURSIVE BitLen(_)
BitLen(x) == IF x = 0 THEN 0 ELSE 1 + BitLen(x \div 2)

\* int * long double: the exact product rounded to 64 significant bits, inf
\* when it exceeds LDBL_MAX.  The operands are those the multiplication of
\* produce_item can get: n >= 1 (for number < 0 the recursive call does not
\* return and nothing is multiplied) and v >= 1, where v is finite only for
\* n <= 1755.
LdMulInt(n, v) ==
    IF n = 0 \/ v = LdZero THEN LdZero ELSE
    IF v = LdInf THEN LdInf ELSE
    LET p0 == v[4] * n
        p1 == v[3] * n + (p0 \div Limb)
        p2 == v[2] * n + (p1 \div Limb)
        p3 == v[1] * n + (p2 \div Limb)
        r0 == p0 % Limb
        r1 == p1 % Limb
        r2 == p2 % Limb
        r3 == p3 % Limb
        r4 == p3 \div Limb
        k  == BitLen(r4)
        sh == 2 ^ k
        up == Limb \div sh
        q0 == (r0 \div sh) + (r1 % sh) * up
        q1 == (r1 \div sh) + (r2 % sh) * up
        q2 == (r2 \div sh) + (r3 % sh) * up
        q3 == (r3 \div sh) + r4 * up
        rem == r0 % sh
        half == sh \div 2
        roundUp == k > 0 /\ (rem > half \/ (rem = half /\ q0 % 2 = 1))
        s0 == q0 + (IF roundUp THEN 1 ELSE 0)
        s1 == q1 + (s0 \div Limb)
        s2 == q2 + (s1 \div Limb)
        s3 == q3 + (s2 \div Limb)
    IN  IF s3 = Limb
        THEN LdOverflow(<<Limb \div 2, 0, 0, 0, v[5] + k + 1>>)
        ELSE LdOverflow(<<s3, s2 % Limb, s1 % Limb, s0 % Limb, v[5] + k>>)

\* hi * (... * ((lo + 1) * (lo * acc))): the multiplications that the
\* recursion of produce_item performs on its way back from produce_item(lo - 1)
\* = acc to produce_item(hi), in the same order
RECURSIVE MulRange(_, _, _)
MulRange(lo, hi, acc) ==
    IF lo > hi \/ acc = LdZero THEN acc
    ELSE IF lo = hi THEN LdMulInt(lo, acc)
    ELSE LET mid == (lo + hi) \div 2
         IN  MulRange(mid + 1, hi, MulRange(lo, mid, acc))

\* the outcome of a call whose recursion does not end: the stack is
\* exhausted and the process dies of SIGSEGV
NoReturn == <<"SIGSEGV">>

\* the status of a process that SIGSEGV has ended (128 + 11)
SIGSEGV_STATUS == 139

\* (number == 0) ? 1 : number * produce_item(number - 1), in long double:
\* the set of outcomes of the call.  For number < 0 the recursion never
\* reaches 0.  The number + 1 frames of the recursion fit the stack for the
\* arguments of the producer (number <= MAX_BUFFER_SIZE); for a deeper
\* recursion the size of the stack and the build decide whether the call
\* returns its value or exhausts the stack.
Factorial(number) ==
    IF number < 0 THEN {NoReturn}
    ELSE IF number = 0 THEN {LdOne}
    ELSE IF number <= MAX_BUFFER_SIZE THEN {MulRange(1, number, LdOne)}
    ELSE {MulRange(1, number, LdOne), NoReturn}

\* Factorial on the arguments the producer can pass, computed once
FactorialTable == [number \in 0 .. MAX_BUFFER_SIZE |-> Factorial(number)]

\* long double produce_item(int number): the set of outcomes of the call
produce_item(number) ==
    IF number \in DOMAIN FactorialTable
    THEN FactorialTable[number]
    ELSE Factorial(number)

\* contents of a slot that malloc returned and nobody has written
Uninit == <<>>

VARIABLES
    buffer,            \* long double *buffer: slot index -> value
    empty_semaphore,   \* value of the counting semaphore empty_semaphore
    full_semaphore,    \* value of the counting semaphore full_semaphore
    lock,              \* owner of the mutex: "free", "producer", "consumer"
    released,          \* resources main has freed or destroyed
    m_pc,              \* main's position
    exit_code,         \* -1 while the process runs, then its exit status
    p_pc,              \* producer's position
    p_buffer_index,    \* producer's local buffer_index
    p_item,            \* producer's local item
    c_pc,              \* consumer's position
    c_buffer_index,    \* consumer's local buffer_index
    writes,            \* history: <<index, value>> of every buffer write
    produced_out,      \* history: indices printed by "Produced %d"
    consumed_out,      \* history: indices printed by "Consumed %d"
    puts,              \* history: number of iterations the producer completed
    takes,             \* history: number of iterations the consumer completed
    last_op,           \* history: the iteration completed last
    failed             \* history: the library calls that returned an error

shared   == <<buffer, empty_semaphore, full_semaphore, lock, released>>
mainv    == <<m_pc, exit_code>>
prodv    == <<p_pc, p_buffer_index, p_item>>
consv    == <<c_pc, c_buffer_index>>
history  == <<writes, produced_out, consumed_out, puts, takes, last_op,
               failed>>
vars     == <<shared, mainv, prodv, consv, history>>

Slots == 0 .. (MAX_BUFFER_SIZE - 1)

(***************************************************************************)
(* Initial values, as main sets them up before it creates the threads.     *)
(***************************************************************************)
\* fault: full_semaphore initialised like empty_semaphore
FullInit_AsEmpty == MAX_BUFFER_SIZE

\* sem_init(&full_semaphore, 0, 0)
FullInit == 0

\* fault: empty_semaphore initialised one short
EmptyInit_OneShort == MAX_BUFFER_SIZE - 1

\* sem_init(&empty_semaphore, 0, MAX_BUFFER_SIZE)
EmptyInit == MAX_BUFFER_SIZE

\* producer: int buffer_index = 0;
P_IndexInit == 0

\* consumer: int buffer_index = 0;
C_IndexInit == 0

Init ==
    /\ buffer = [i \in Slots |-> Uninit]
    /\ empty_semaphore = EmptyInit
    /\ full_semaphore = FullInit
    /\ lock = "free"
    /\ released = {}
    /\ m_pc = "create_consumer"
    /\ exit_code = -1
    /\ p_pc = "not_started"
    /\ p_buffer_index = P_IndexInit
    /\ p_item = Uninit
    /\ c_pc = "not_started"
    /\ c_buffer_index = C_IndexInit
    /\ writes = <<>>
    /\ produced_out = <<>>
    /\ consumed_out = <<>>
    /\ puts = 0
    /\ takes = 0
    /\ last_op = "none"
    /\ failed = <<>>

(***************************************************************************)
(* The synchronisation primitives.                                         *)
(***************************************************************************)
\* fault: sem_wait never blocks
SemCanWait_Always(value) == TRUE

\* sem_wait can return when the semaphore's value is positive
SemCanWait(value) == value > 0

\* fault: sem_wait leaves the value alone
SemWait_Keep(value) == value

\* sem_wait decrements the value
SemWait(value) == value - 1

\* fault: sem_post loses the increment
SemPost_Lost(value) == value

\* sem_post increments the value
SemPost(value) == value + 1

\* fault: pthread_mutex_lock never blocks
MutexCanLock_Always(owner) == TRUE

\* pthread_mutex_lock can return when nobody owns the mutex
MutexCanLock(owner) == owner = "free"

\* fault: pthread_mutex_unlock leaves the mutex owned
MutexUnlock_Keep(owner) == owner

\* pthread_mutex_unlock
MutexUnlock(owner) == "free"

\* fault: the producer does not advance its index
P_NextIndex_Stuck(index) == index

\* producer: buffer_index = (buffer_index + 1);
P_NextIndex(index) == index + 1

\* fault: the consumer skips an index
C_NextIndex_Skip(index) == index + 2

\* consumer: buffer_index = (buffer_index + 1);
C_NextIndex(index) == index + 1

\* fault: the producer loops once too often
P_LoopAgain_OneMore(index) == index <= MAX_BUFFER_SIZE

\* producer: while (buffer_index < MAX_BUFFER_SIZE)
P_LoopAgain(index) == index < MAX_BUFFER_SIZE

\* consumer: while (buffer_index < MAX_BUFFER_SIZE)
C_LoopAgain(index) == index < MAX_BUFFER_SIZE

\* the process has not exited: exit and the return of main end the threads
ProcessRunning == exit_code = -1

(***************************************************************************)
(* producer                                                                *)
(***************************************************************************)
\* long double item = produce_item(buffer_index);
\* (a call that exhausts the stack ends the process)
P_Produce ==
    /\ ProcessRunning
    /\ p_pc = "produce"
    /\ \E item \in produce_item(p_buffer_index) :
          IF item = NoReturn
          THEN /\ exit_code' = SIGSEGV_STATUS
               /\ m_pc' = "exited"
               /\ UNCHANGED <<p_pc, p_item>>
          ELSE /\ p_item' = item
               /\ p_pc' = "sem_wait"
               /\ UNCHANGED mainv
    /\ UNCHANGED <<shared, p_buffer_index, consv, history>>

\* sem_wait(&empty_semaphore);
P_SemWait ==
    /\ ProcessRunning
    /\ p_pc = "sem_wait"
    /\ SemCanWait(empty_semaphore)
    /\ empty_semaphore' = SemWait(empty_semaphore)
    /\ p_pc' = "lock"
    /\ UNCHANGED <<buffer, full_semaphore, lock, released, mainv,
                   p_buffer_index, p_item, consv, history>>

\* pthread_mutex_lock(&lock);
P_Lock ==
    /\ ProcessRunning
    /\ p_pc = "lock"
    /\ MutexCanLock(lock)
    /\ lock' = "producer"
    /\ p_pc' = "write"
    /\ UNCHANGED <<buffer, empty_semaphore, full_semaphore, released, mainv,
                   p_buffer_index, p_item, consv, history>>

\* buffer[buffer_index] = item;
\* (buffer_index stays inside the array in every reachable state; a store
\* outside it would not change any slot of the array)
P_Write ==
    /\ ProcessRunning
    /\ p_pc = "write"
    /\ buffer' = IF p_buffer_index \in Slots
                 THEN [buffer EXCEPT ![p_buffer_index] = p_item]
                 ELSE buffer
    /\ writes' = Append(writes, <<p_buffer_index, p_item>>)
    /\ p_pc' = "printf"
    /\ UNCHANGED <<empty_semaphore, full_semaphore, lock, released, mainv,
                   p_buffer_index, p_item, consv,
                   produced_out, consumed_out, puts, takes, last_op, failed>>

\* printf("Produced %d\n", buffer_index);
P_Printf ==
    /\ ProcessRunning
    /\ p_pc = "printf"
    /\ produced_out' = Append(produced_out, p_buffer_index)
    /\ p_pc' = "incr"
    /\ UNCHANGED <<shared, mainv, p_buffer_index, p_item, consv,
                   writes, consumed_out, puts, takes, last_op, failed>>

\* buffer_index = (buffer_index + 1);
P_Incr ==
    /\ ProcessRunning
    /\ p_pc = "incr"
    /\ p_buffer_index' = P_NextIndex(p_buffer_index)
    /\ p_pc' = "unlock"
    /\ UNCHANGED <<shared, mainv, p_item, consv, history>>

\* pthread_mutex_unlock(&lock);
P_Unlock ==
    /\ ProcessRunning
    /\ p_pc = "unlock"
    /\ lock' = MutexUnlock(lock)
    /\ p_pc' = "sem_post"
    /\ UNCHANGED <<buffer, empty_semaphore, full_semaphore, released, mainv,
                   p_buffer_index, p_item, consv, history>>

\* sem_post(&full_semaphore);
P_SemPost ==
    /\ ProcessRunning
    /\ p_pc = "sem_post"
    /\ full_semaphore' = SemPost(full_semaphore)
    /\ puts' = puts + 1
    /\ last_op' = "put"
    /\ p_pc' = "while"
    /\ UNCHANGED <<buffer, empty_semaphore, lock, released, mainv,
                   p_buffer_index, p_item, consv,
                   writes, produced_out, consumed_out, takes, failed>>

\* } while (buffer_index < MAX_BUFFER_SIZE);  return NULL;
P_While ==
    /\ ProcessRunning
    /\ p_pc = "while"
    /\ p_pc' = IF P_LoopAgain(p_buffer_index) THEN "produce" ELSE "done"
    /\ UNCHANGED <<shared, mainv, p_buffer_index, p_item, consv, history>>

producer ==
    \/ P_Produce
    \/ P_SemWait
    \/ P_Lock
    \/ P_Write
    \/ P_Printf
    \/ P_Incr
    \/ P_Unlock
    \/ P_SemPost
    \/ P_While

(***************************************************************************)
(* consumer                                                                *)
(***************************************************************************)
\* sem_wait(&full_semaphore);
C_SemWait ==
    /\ ProcessRunning
    /\ c_pc = "sem_wait"
    /\ SemCanWait(full_semaphore)
    /\ full_semaphore' = SemWait(full_semaphore)
    /\ c_pc' = "lock"
    /\ UNCHANGED <<buffer, empty_semaphore, lock, released, mainv, prodv,
                   c_buffer_index, history>>

\* pthread_mutex_lock(&lock);
C_Lock ==
    /\ ProcessRunning
    /\ c_pc = "lock"
    /\ MutexCanLock(lock)
    /\ lock' = "consumer"
    /\ c_pc' = "printf"
    /\ UNCHANGED <<buffer, empty_semaphore, full_semaphore, released, mainv,
                   prodv, c_buffer_index, history>>

\* printf("Consumed %d\n", buffer_index);
C_Printf ==
    /\ ProcessRunning
    /\ c_pc = "printf"
    /\ consumed_out' = Append(consumed_out, c_buffer_index)
    /\ c_pc' = "incr"
    /\ UNCHANGED <<shared, mainv, prodv, c_buffer_index,
                   writes, produced_out, puts, takes, last_op, failed>>

\* buffer_index = (buffer_index + 1);
C_Incr ==
    /\ ProcessRunning
    /\ c_pc = "incr"
    /\ c_buffer_index' = C_NextIndex(c_buffer_index)
    /\ c_pc' = "unlock"
    /\ UNCHANGED <<shared, mainv, prodv, history>>

\* pthread_mutex_unlock(&lock);
C_Unlock ==
    /\ ProcessRunning
    /\ c_pc = "unlock"
    /\ lock' = MutexUnlock(lock)
    /\ c_pc' = "sem_post"
    /\ UNCHANGED <<buffer, empty_semaphore, full_semaphore, released, mainv,
                   prodv, c_buffer_index, history>>

\* sem_post(&empty_semaphore);
C_SemPost ==
    /\ ProcessRunning
    /\ c_pc = "sem_post"
    /\ empty_semaphore' = SemPost(empty_semaphore)
    /\ takes' = takes + 1
    /\ last_op' = "take"
    /\ c_pc' = "while"
    /\ UNCHANGED <<buffer, full_semaphore, lock, released, mainv, prodv,
                   c_buffer_index, writes, produced_out, consumed_out, puts,
                   failed>>

\* } while (buffer_index < MAX_BUFFER_SIZE);  return NULL;
C_While ==
    /\ ProcessRunning
    /\ c_pc = "while"
    /\ c_pc' = IF C_LoopAgain(c_buffer_index) THEN "sem_wait" ELSE "done"
    /\ UNCHANGED <<shared, mainv, prodv, c_buffer_index, history>>

consumer ==
    \/ C_SemWait
    \/ C_Lock
    \/ C_Printf
    \/ C_Incr
    \/ C_Unlock
    \/ C_SemPost
    \/ C_While

(***************************************************************************)
(* main, from the creation of the threads on                               *)
(***************************************************************************)
\* pthread_create(&consumer_thread, &consumer_attr, consumer, NULL);
M_CreateConsumer ==
    /\ m_pc = "create_consumer"
    /\ c_pc' = "sem_wait"
    /\ m_pc' = "create_producer"
    /\ UNCHANGED <<shared, exit_code, prodv, c_buffer_index, history>>

\* pthread_create(&producer_thread, &producer_attr, producer, NULL);
M_CreateProducer ==
    /\ m_pc = "create_producer"
    /\ p_pc' = "produce"
    /\ m_pc' = "join_producer"
    /\ UNCHANGED <<shared, exit_code, p_buffer_index, p_item, consv, history>>

\* fault: pthread_join returns while the thread still runs
ThreadJoinable_Always(pc) == TRUE

\* pthread_join returns when the thread has returned
ThreadJoinable(pc) == pc = "done"

\* pthread_join(producer_thread, NULL);
M_JoinProducer ==
    /\ m_pc = "join_producer"
    /\ ThreadJoinable(p_pc)
    /\ m_pc' = "join_consumer"
    /\ UNCHANGED <<shared, exit_code, prodv, consv, history>>

\* pthread_join(consumer_thread, NULL);
M_JoinConsumer ==
    /\ m_pc = "join_consumer"
    /\ ThreadJoinable(c_pc)
    /\ m_pc' = "attr_destroy"
    /\ UNCHANGED <<shared, exit_code, prodv, consv, history>>

\* pthread_attr_destroy(&producer_attr); pthread_attr_destroy(&consumer_attr);
M_AttrDestroy ==
    /\ m_pc = "attr_destroy"
    /\ m_pc' = "free"
    /\ UNCHANGED <<shared, exit_code, prodv, consv, history>>

\* free(buffer);
\* (the array is gone: the block buffer points to holds no slot any more)
M_Free ==
    /\ m_pc = "free"
    /\ buffer' = <<>>
    /\ released' = released \cup {"buffer"}
    /\ m_pc' = "mutex_destroy"
    /\ UNCHANGED <<empty_semaphore, full_semaphore, lock, exit_code,
                   prodv, consv, history>>

\* pthread_mutex_destroy(&lock);
M_MutexDestroy ==
    /\ m_pc = "mutex_destroy"
    /\ released' = released \cup {"lock"}
    /\ m_pc' = "sem_destroy_full"
    /\ UNCHANGED <<buffer, empty_semaphore, full_semaphore, lock, exit_code,
                   prodv, consv, history>>

\* sem_destroy(&full_semaphore);
M_SemDestroyFull ==
    /\ m_pc = "sem_destroy_full"
    /\ released' = released \cup {"full_semaphore"}
    /\ m_pc' = "sem_destroy_empty"
    /\ UNCHANGED <<buffer, empty_semaphore, full_semaphore, lock, exit_code,
                   prodv, consv, history>>

\* sem_destroy(&empty_semaphore);
M_SemDestroyEmpty ==
    /\ m_pc = "sem_destroy_empty"
    /\ released' = released \cup {"empty_semaphore"}
    /\ m_pc' = "return"
    /\ UNCHANGED <<buffer, empty_semaphore, full_semaphore, lock, exit_code,
                   prodv, consv, history>>

\* return 0;
M_Return ==
    /\ m_pc = "return"
    /\ exit_code' = 0
    /\ m_pc' = "exited"
    /\ UNCHANGED <<shared, prodv, consv, history>>

main ==
    \/ M_CreateConsumer
    \/ M_CreateProducer
    \/ M_JoinProducer
    \/ M_JoinConsumer
    \/ M_AttrDestroy
    \/ M_Free
    \/ M_MutexDestroy
    \/ M_SemDestroyFull
    \/ M_SemDestroyEmpty
    \/ M_Return

Next == producer \/ consumer \/ main

Spec == Init /\ [][Next]_vars

\* two OS threads and main, each scheduled fairly
FairSpec == Spec /\ WF_vars(producer) /\ WF_vars(consumer) /\ WF_vars(main)

(***************************************************************************)
(* The program from the entry of main, with library calls that may fail.   *)
(* main checks the result of every call it makes except free; the threads  *)
(* ignore the results of sem_wait, pthread_mutex_lock, pthread_mutex_unlock *)
(* and sem_post.  The calls of the threads work on objects that main has  *)
(* initialised and not yet destroyed, on a default mutex and on counts far  *)
(* below SEM_VALUE_MAX, and main installs no signal handler that could      *)
(* interrupt a sem_wait: in this program they return 0, and the calls that  *)
(* can return an error are those of main.                                   *)
(***************************************************************************)
\* exit(EXIT_FAILURE)
EXIT_FAILURE == 1

\* the calls of main whose result main checks
CheckedCalls ==
    {"malloc", "mutex_init", "sem_init_full", "sem_init_empty", "attr_init",
     "create_consumer", "create_producer", "join_producer", "join_consumer",
     "attr_destroy", "mutex_destroy", "sem_destroy_full", "sem_destroy_empty"}

\* the state at the entry of main: buffer is a null pointer, the semaphores
\* are zeroed static storage
FaultInit ==
    /\ buffer = <<>>
    /\ empty_semaphore = 0
    /\ full_semaphore = 0
    /\ lock = "free"
    /\ released = {}
    /\ m_pc = "malloc"
    /\ exit_code = -1
    /\ p_pc = "not_started"
    /\ p_buffer_index = P_IndexInit
    /\ p_item = Uninit
    /\ c_pc = "not_started"
    /\ c_buffer_index = C_IndexInit
    /\ writes = <<>>
    /\ produced_out = <<>>
    /\ consumed_out = <<>>
    /\ puts = 0
    /\ takes = 0
    /\ last_op = "none"
    /\ failed = <<>>

\* buffer = (long double *) malloc(sizeof(long double) * MAX_BUFFER_SIZE);
M_Malloc ==
    /\ m_pc = "malloc"
    /\ buffer' = [i \in Slots |-> Uninit]
    /\ m_pc' = "mutex_init"
    /\ UNCHANGED <<empty_semaphore, full_semaphore, lock, released, exit_code,
                   prodv, consv, history>>

\* pthread_mutex_init(&lock, NULL);
M_MutexInit ==
    /\ m_pc = "mutex_init"
    /\ lock' = "free"
    /\ m_pc' = "sem_init_full"
    /\ UNCHANGED <<buffer, empty_semaphore, full_semaphore, released,
                   exit_code, prodv, consv, history>>

\* sem_init(&full_semaphore, 0, 0);
M_SemInitFull ==
    /\ m_pc = "sem_init_full"
    /\ full_semaphore' = FullInit
    /\ m_pc' = "sem_init_empty"
    /\ UNCHANGED <<buffer, empty_semaphore, lock, released, exit_code,
                   prodv, consv, history>>

\* sem_init(&empty_semaphore, 0, MAX_BUFFER_SIZE);
M_SemInitEmpty ==
    /\ m_pc = "sem_init_empty"
    /\ empty_semaphore' = EmptyInit
    /\ m_pc' = "attr_init"
    /\ UNCHANGED <<buffer, full_semaphore, lock, released, exit_code,
                   prodv, consv, history>>

\* pthread_attr_init(&producer_attr); pthread_attr_init(&consumer_attr);
M_AttrInit ==
    /\ m_pc = "attr_init"
    /\ m_pc' = "create_consumer"
    /\ UNCHANGED <<shared, exit_code, prodv, consv, history>>

\* a checked call of main returns an error
M_CallFails ==
    /\ m_pc \in CheckedCalls
    /\ failed' = Append(failed, m_pc)
    /\ m_pc' = "exit_failure"
    /\ UNCHANGED <<shared, exit_code, prodv, consv,
                   writes, produced_out, consumed_out, puts, takes, last_op>>

\* fault: the error branch ends the process with the status of success
M_ExitFailure_Success ==
    /\ m_pc = "exit_failure"
    /\ exit_code' = 0
    /\ m_pc' = "exited"
    /\ UNCHANGED <<shared, prodv, consv, history>>

\* main, after the failed call: printf(...); exit(EXIT_FAILURE); the threads
\* run until exit ends the process
M_ExitFailure ==
    /\ m_pc = "exit_failure"
    /\ exit_code' = EXIT_FAILURE
    /\ m_pc' = "exited"
    /\ UNCHANGED <<shared, prodv, consv, history>>

FaultNext ==
    \/ Next
    \/ M_Malloc
    \/ M_MutexInit
    \/ M_SemInitFull
    \/ M_SemInitEmpty
    \/ M_AttrInit
    \/ M_CallFails
    \/ M_ExitFailure

FaultSpec == FaultInit /\ [][FaultNext]_vars

(***************************************************************************)
(* Vocabulary of the properties.                                           *)
(***************************************************************************)
\* the producer is between pthread_mutex_lock and pthread_mutex_unlock
P_InCS == p_pc \in {"write", "printf", "incr", "unlock"}

\* the consumer is between pthread_mutex_lock and pthread_mutex_unlock
C_InCS == c_pc \in {"printf", "incr", "unlock"}

\* the producer is between its sem_wait and its matching sem_post
P_MidOp == p_pc \in {"lock", "write", "printf", "incr", "unlock", "sem_post"}

\* the consumer is between its sem_wait and its matching sem_post
C_MidOp == c_pc \in {"lock", "printf", "incr", "unlock", "sem_post"}

\* items whose buffer write the producer has completed
Produced == Len(writes)

\* items whose critical section the consumer has completed
Consumed == takes + (IF c_pc = "sem_post" THEN 1 ELSE 0)

BothDone == p_pc = "done" /\ c_pc = "done"

BothStarted == p_pc # "not_started" /\ c_pc # "not_started"

\* how often index i occurs in the sequence s of indices
Count(s, i) == Cardinality({k \in 1 .. Len(s) : s[k] = i})

\* the index of the k-th buffer write
WrittenIndex(k) == writes[k][1]

\* the indices of the buffer writes, in order
WrittenIndices == [k \in 1 .. Len(writes) |-> WrittenIndex(k)]

\* C1: in every reachable state the number of items written but not yet
\* consumed lies between 0 and the capacity MAX_BUFFER_SIZE.
C1_Boundedness ==
    /\ 0 <= Produced - Consumed
    /\ Produced - Consumed <= MAX_BUFFER_SIZE

\* C1 case: every slot is written and nothing is consumed yet, the largest
\* number of outstanding items.
C1_Witness == Produced = MAX_BUFFER_SIZE /\ Consumed = 0 /\ c_pc = "sem_wait"

\* C2: every buffer write goes to a slot that was never written before or
\* whose earlier values have all been consumed.
C2_NoOverwrite ==
    [][writes' # writes =>
          LET idx == writes'[Len(writes')][1]
          IN  /\ Len(writes') = Len(writes) + 1
              /\ Count(WrittenIndices, idx) <= Count(consumed_out, idx)]_vars

\* C2 case: the producer has written several slots while the consumer has
\* consumed only the first.
C2_Witness ==
    /\ Len(writes) = 3
    /\ consumed_out = <<0>>
    /\ buffer[2] # Uninit
    /\ buffer[3] = Uninit

\* C3: producer and consumer are never both inside their critical sections,
\* and whoever is inside is the one owner of the lock.
C3_MutualExclusion ==
    /\ ~(P_InCS /\ C_InCS)
    /\ P_InCS => lock = "producer"
    /\ C_InCS => lock = "consumer"
    /\ lock \in {"free", "producer", "consumer"}

\* C3 case: the producer is inside its critical section while the consumer
\* waits in pthread_mutex_lock.
C3_Witness == P_InCS /\ c_pc = "lock" /\ lock = "producer"

\* C4: under fair scheduling every execution reaches the state where both
\* threads have returned after exactly MAX_BUFFER_SIZE puts and takes, and
\* main has joined them.
C4_Termination ==
    <>(/\ BothDone
       /\ puts = MAX_BUFFER_SIZE
       /\ takes = MAX_BUFFER_SIZE
       /\ m_pc \notin {"create_consumer", "create_producer",
                       "join_producer", "join_consumer"})

\* C4 case: both threads have returned and main is past both joins.
C4_Witness ==
    /\ BothDone
    /\ puts = MAX_BUFFER_SIZE
    /\ takes = MAX_BUFFER_SIZE
    /\ m_pc = "attr_destroy"

\* C5: while a started thread has not finished, some thread can take a
\* step: once both threads run, the producer or the consumer can.
C5_DeadlockFree ==
    /\ ~BothDone => ENABLED Next
    /\ (BothStarted /\ ~BothDone) => ENABLED (producer \/ consumer)

\* C5 case: the consumer is blocked in sem_wait on full_semaphore and only
\* the producer can step.
C5_Witness ==
    /\ c_pc = "sem_wait"
    /\ full_semaphore = 0
    /\ p_pc = "lock"
    /\ takes > 0

\* C6: the k-th index consumed is the k-th index written, the value stored
\* there is the value of the k-th put for as long as the array exists, and
\* the indices are consumed in order without gaps or repetitions.
C6_Fifo ==
    /\ Len(consumed_out) <= Len(writes)
    /\ \A k \in 1 .. Len(consumed_out) :
          /\ consumed_out[k] = WrittenIndex(k)
          /\ "buffer" \notin released =>
                buffer[consumed_out[k]] = writes[k][2]
    /\ BothDone => Len(consumed_out) = Len(writes)

\* C6 case: the consumer has consumed some but not all of the written
\* items.
C6_Witness ==
    /\ Len(consumed_out) = 2
    /\ Len(writes) = 4
    /\ c_pc = "incr"

\* C7 as stated: in every reachable state, also while a thread is between
\* its sem_wait and its sem_post, empty_semaphore + full_semaphore equals
\* the capacity.
C7_SumAlwaysCapacity == empty_semaphore + full_semaphore = MAX_BUFFER_SIZE

\* C7 amended: in every reachable state the sum is at most the capacity and
\* at least the capacity minus two, and it equals the capacity exactly when
\* no thread is between its sem_wait and its matching sem_post.
C7_SumWithinCapacity ==
    /\ empty_semaphore + full_semaphore <= MAX_BUFFER_SIZE
    /\ empty_semaphore + full_semaphore >= MAX_BUFFER_SIZE - 2
    /\ (empty_semaphore + full_semaphore = MAX_BUFFER_SIZE)
           <=> ~(P_MidOp \/ C_MidOp)

\* C7 case: both threads are between sem_wait and sem_post and the sum is
\* two below the capacity.
C7_Witness ==
    /\ P_MidOp
    /\ C_MidOp
    /\ empty_semaphore + full_semaphore = MAX_BUFFER_SIZE - 2

\* C8: in every state where neither thread is between its sem_wait and its
\* matching sem_post, empty_semaphore + full_semaphore equals the capacity.
C8_SumAtQuiescence ==
    ~(P_MidOp \/ C_MidOp) =>
        empty_semaphore + full_semaphore = MAX_BUFFER_SIZE

\* C8 case: a quiescent point in mid-run, with some slots filled and some
\* free.
C8_Witness ==
    /\ p_pc = "while"
    /\ c_pc = "while"
    /\ full_semaphore = 3
    /\ empty_semaphore = MAX_BUFFER_SIZE - 3

\* C9: while the consumer consumes index i the producer has completed the
\* write of index i, the indices are consumed in the order 0, 1, 2, ...
\* without repetition, and a consumer that has returned has consumed every
\* index below MAX_BUFFER_SIZE.
C9_NoReadAhead ==
    /\ (C_InCS /\ c_pc # "unlock") =>
          /\ c_buffer_index < Produced
          /\ c_buffer_index \in Slots
          /\ buffer[c_buffer_index] # Uninit
    /\ \A k \in 1 .. Len(consumed_out) : consumed_out[k] = k - 1
    /\ c_pc = "done" => Len(consumed_out) = MAX_BUFFER_SIZE

\* C9 case: the consumer consumes the index the producer wrote last.
C9_Witness ==
    /\ c_pc = "printf"
    /\ c_buffer_index = 4
    /\ Produced = 5
    /\ p_pc = "sem_wait"

\* C10: once both threads have returned, exactly MAX_BUFFER_SIZE puts and
\* takes have occurred, a take completed last, empty_semaphore is the
\* capacity, full_semaphore is 0 and the mutex is free.
C10_FinalState ==
    BothDone =>
        /\ puts = MAX_BUFFER_SIZE
        /\ takes = MAX_BUFFER_SIZE
        /\ last_op = "take"
        /\ empty_semaphore = MAX_BUFFER_SIZE
        /\ full_semaphore = 0
        /\ lock = "free"

\* C10 case: both threads have returned and main has not joined yet.
C10_Witness == BothDone /\ m_pc = "join_producer" /\ last_op = "take"

C13_ProducedBeforeConsumed ==
    /\ Len(consumed_out) <= puts
    /\ c_pc \in {"lock", "printf", "incr"} => c_buffer_index < puts
    /\ \A k \in 1 .. Len(consumed_out) :
          /\ k <= Len(produced_out)
          /\ consumed_out[k] = produced_out[k]
          /\ consumed_out[k] = WrittenIndex(k)

\* C13 case: the consumer is in its critical section for the item whose
\* sem_post the producer has just executed.
C13_Witness ==
    /\ c_pc = "printf"
    /\ c_buffer_index = 2
    /\ puts = 3
    /\ p_pc = "while"

\* C14: a thread that waits in sem_wait does not hold the lock; the lock is
\* taken only after the semaphore and given back before the sem_post.
C14_NoWaitHoldingLock ==
    /\ p_pc \in {"produce", "sem_wait", "lock", "sem_post", "while", "done"}
          => lock # "producer"
    /\ c_pc \in {"sem_wait", "lock", "sem_post", "while", "done"}
          => lock # "consumer"

\* C14 case: the consumer is blocked in sem_wait on full_semaphore while
\* the producer holds the lock.
C14_Witness ==
    /\ c_pc = "sem_wait"
    /\ full_semaphore = 0
    /\ lock = "producer"
    /\ p_buffer_index > 0

\* C15: a step that writes a buffer slot or changes a thread's buffer_index
\* is taken by the thread that holds the mutex, an index grows by exactly 1
\* and exactly once per loop iteration, and the sem_wait and sem_post steps
\* leave the buffer and both indices unchanged; besides the slot writes only
\* free changes the array.
C15_GuardedState ==
    [][/\ (writes' # writes \/ p_buffer_index' # p_buffer_index)
             => (lock = "producer" /\ lock' = "producer")
       /\ buffer' # buffer
             => (writes' # writes \/ released' # released)
       /\ c_buffer_index' # c_buffer_index
             => (lock = "consumer" /\ lock' = "consumer")
       /\ p_buffer_index' \in {p_buffer_index, p_buffer_index + 1}
       /\ c_buffer_index' \in {c_buffer_index, c_buffer_index + 1}
       /\ puts' # puts => (puts' = puts + 1 /\ p_buffer_index = puts')
       /\ takes' # takes => (takes' = takes + 1 /\ c_buffer_index = takes')
       /\ (empty_semaphore' # empty_semaphore
              \/ full_semaphore' # full_semaphore)
             => UNCHANGED <<buffer, p_buffer_index, c_buffer_index>>]_vars

\* C15 case: the producer, holding the lock, has written a slot and
\* advanced its index, and the consumer has advanced its own.
C15_Witness ==
    /\ p_pc = "unlock"
    /\ lock = "producer"
    /\ p_buffer_index = 3
    /\ buffer[2] # Uninit
    /\ c_buffer_index = 1

\* C16: the buffer, the mutex and the semaphores are released only when
\* both threads have returned and main has joined them, and no thread takes
\* a step afterwards.
C16_ReleasedAfterJoin ==
    /\ [](released # {} =>
             /\ BothDone
             /\ m_pc \in {"mutex_destroy", "sem_destroy_full",
                          "sem_destroy_empty", "return", "exited"})
    /\ [][released # {} => UNCHANGED <<prodv, consv>>]_vars

\* C16 case: main has released all four resources.
C16_Witness ==
    /\ released = {"buffer", "lock", "full_semaphore", "empty_semaphore"}
    /\ BothDone

\* the consumer waits in sem_wait on a full_semaphore that is 0
C_Blocked == c_pc = "sem_wait" /\ full_semaphore = 0

\* the producer is created, has not returned and is between two puts
P_BetweenPuts == p_pc \in {"produce", "sem_wait", "while"}

\* the scheduling when the producer may stall: only the consumer and main
\* are sure to run
StallSpec == Spec /\ WF_vars(consumer) /\ WF_vars(main)

\* C17: there is no timeout.  The consumer gets past sem_wait at most as
\* often as the producer has posted; a consumer blocked in sem_wait cannot
\* step and stays blocked until the producer steps; and when the producer
\* stops for good between two puts, after k < MAX_BUFFER_SIZE of them, the
\* consumer completes exactly k takes and then stays blocked in sem_wait
\* forever, so the threads never both return.
C17_BlocksForever ==
    /\ [](takes + (IF C_MidOp THEN 1 ELSE 0) <= puts)
    /\ [](C_Blocked => ~ENABLED consumer)
    /\ [][(C_Blocked /\ p_pc' = p_pc) => (C_Blocked' /\ takes' = takes)]_vars
    /\ (<>[][~producer]_vars
           /\ <>[](P_BetweenPuts /\ puts < MAX_BUFFER_SIZE))
          => <>[](C_Blocked /\ takes = puts /\ ~BothDone)

\* C17 case: the producer has completed 3 of its puts and stands between
\* two puts; the consumer has completed 3 takes and is blocked.
C17_Witness ==
    /\ puts = 3
    /\ p_pc = "produce"
    /\ takes = 3
    /\ C_Blocked
    /\ ~ENABLED consumer

\* C18: in every reachable state empty_semaphore + full_semaphore + the
\* number of threads between sem_wait and sem_post equals the capacity;
\* both values lie in 0 .. capacity and their sum is at least capacity - 2.
C18_ExactAccounting ==
    LET inflight == (IF P_MidOp THEN 1 ELSE 0) + (IF C_MidOp THEN 1 ELSE 0)
    IN  /\ empty_semaphore + full_semaphore + inflight = MAX_BUFFER_SIZE
        /\ empty_semaphore \in 0 .. MAX_BUFFER_SIZE
        /\ full_semaphore \in 0 .. MAX_BUFFER_SIZE
        /\ empty_semaphore + full_semaphore >= MAX_BUFFER_SIZE - 2

\* C18 case: only the producer is between its sem_wait and its sem_post.
C18_Witness ==
    /\ P_MidOp
    /\ ~C_MidOp
    /\ empty_semaphore + full_semaphore = MAX_BUFFER_SIZE - 1
    /\ full_semaphore > 0

\* C19: whenever buffer[buffer_index] = item executes, and for every write
\* that has executed, the index lies in 0 .. MAX_BUFFER_SIZE - 1, the
\* slots of buffer from malloc to free.
C19_WriteInBounds ==
    /\ p_pc = "write" => p_buffer_index \in DOMAIN buffer
    /\ "buffer" \notin released =>
          DOMAIN buffer = 0 .. (MAX_BUFFER_SIZE - 1)
    /\ \A k \in 1 .. Len(writes) :
          WrittenIndex(k) \in 0 .. (MAX_BUFFER_SIZE - 1)

\* C19 case: the producer is about to write the last slot of the array.
C19_Witness == p_pc = "write" /\ p_buffer_index = MAX_BUFFER_SIZE - 1

\* C20: every sem_wait of the producer finds empty_semaphore >= 1, so the
\* producer is never blocked on a semaphore; a thread blocked on a
\* semaphore is the consumer on full_semaphore.
C20_ProducerNeverBlocks ==
    /\ p_pc = "sem_wait" =>
          (empty_semaphore >= 1 /\ ENABLED P_SemWait)
    /\ empty_semaphore >= MAX_BUFFER_SIZE - p_buffer_index - 1

\* C20 case: the producer has completed all its puts and has returned
\* while the consumer has not taken a single step past its first sem_wait.
C20_Witness ==
    /\ p_pc = "done"
    /\ puts = MAX_BUFFER_SIZE
    /\ c_pc = "sem_wait"
    /\ consumed_out = <<>>
    /\ empty_semaphore = 0

====
